---- MODULE Spec2Model ----
(***************************************************************************)
(* Productboard <-> Zapier integration: the error translator, the entity   *)
(* formatter with its HTML sanitizer and URL builder, and the operation    *)
(* handlers (searches, creates, the polling trigger and the auth test)     *)
(* as a state machine of one host invocation at a time.                    *)
(*                                                                         *)
(* JavaScript values are tagged records: Undefined, Null, Str(s), Bool(b), *)
(* Obj(o) and Arr(a).  A string is a sequence of tokens; the characters    *)
(* the code inspects  < > & ; , / _ and the blank  are tokens of their own *)
(* and every other token is a run of characters the code never looks       *)
(* into (a word, a fixed prefix of a template literal).                    *)
(*                                                                         *)
(* store is the health upstream holds for the entity createHealthUpdate    *)
(* writes, in the specification that takes the upstream API for a store    *)
(* (StoreSpec); the other specifications let upstream answer anything and  *)
(* leave it alone.                                                         *)
(***************************************************************************)
EXTENDS Integers, Sequences, FiniteSets

VARIABLES handler, hostBundle, pc, sent, inflight, responses, delivered, outcome,
          store

vars == <<handler, hostBundle, pc, sent, inflight, responses, delivered, outcome, store>>

(***************************************************************************)
(* JavaScript values                                                       *)
(***************************************************************************)
Undefined == [undef |-> TRUE]
Null == [null |-> TRUE]
Str(s) == [str |-> s]
Bool(b) == [bool |-> b]
Obj(o) == [obj |-> o]
Arr(a) == [arr |-> a]

IsStr(v) == DOMAIN v = {"str"}
IsBool(v) == DOMAIN v = {"bool"}
IsObj(v) == DOMAIN v = {"obj"}
IsArr(v) == DOMAIN v = {"arr"}

EmptyObj == Obj(<<>>)
EmptyStr == Str(<<>>)

\* ToBoolean: undefined, null, '' and false are falsy (no numbers are modelled)
Truthy(v) ==
  /\ v # Undefined
  /\ v # Null
  /\ v # EmptyStr
  /\ v # Bool(FALSE)

\* a || b
Or(a, b) == IF Truthy(a) THEN a ELSE b

\* o.k on a non-nullish value: the property, or undefined when it has none
\* (the model never applies it to undefined or null, where JavaScript throws)
Get(o, k) == IF IsObj(o) /\ k \in DOMAIN o.obj THEN o.obj[k] ELSE Undefined

\* o?.k : undefined when o is undefined or null
OptGet(o, k) == IF o = Undefined \/ o = Null THEN Undefined ELSE Get(o, k)

\* ToString of a template-literal substitution `${v}`
RECURSIVE JoinStrings(_, _)
JoinStrings(parts, sep) ==
  IF Len(parts) = 0 THEN <<>>
  ELSE IF Len(parts) = 1 THEN parts[1]
  ELSE parts[1] \o sep \o JoinStrings(Tail(parts), sep)

RECURSIVE ToString(_)
ToString(v) ==
  IF IsStr(v) THEN v.str
  ELSE IF v = Undefined THEN <<"undefined">>
  ELSE IF v = Null THEN <<"null">>
  ELSE IF IsBool(v) THEN (IF v.bool THEN <<"true">> ELSE <<"false">>)
  ELSE IF IsArr(v) THEN
    JoinStrings([i \in 1..Len(v.arr) |->
                   IF v.arr[i] = Undefined \/ v.arr[i] = Null
                   THEN <<>> ELSE ToString(v.arr[i])], <<",">>)
  ELSE <<"[object Object]">>

(***************************************************************************)
(* lib/utils.js: stripHtml                                                 *)
(***************************************************************************)
\* \s of the regular expression and of String.prototype.trim
IsWs(c) == c \in {" ", "\t", "\n"}

\* index of the first ">" after position i, 0 when there is none
FirstGt(s, i) ==
  IF \E j \in (i + 1)..Len(s) : s[j] = ">"
  THEN CHOOSE j \in (i + 1)..Len(s) :
         /\ s[j] = ">"
         /\ \A k \in (i + 1)..(j - 1) : s[k] # ">"
  ELSE 0

\* .replace(/<[^>]*>/g, '')
RECURSIVE StripTagsFrom(_, _)
StripTagsFrom(s, i) ==
  IF i > Len(s) THEN <<>>
  ELSE IF s[i] = "<" /\ FirstGt(s, i) # 0 THEN StripTagsFrom(s, FirstGt(s, i) + 1)
  ELSE <<s[i]>> \o StripTagsFrom(s, i + 1)

StripTags(s) == StripTagsFrom(s, 1)

\* .replace(/pat/g, rep) for a literal pattern: leftmost matches, left to
\* right, the replacement text is not scanned again
RECURSIVE ReplaceAllFrom(_, _, _, _)
ReplaceAllFrom(s, i, pat, rep) ==
  IF i > Len(s) THEN <<>>
  ELSE IF i + Len(pat) - 1 <= Len(s) /\ SubSeq(s, i, i + Len(pat) - 1) = pat
       THEN rep \o ReplaceAllFrom(s, i + Len(pat), pat, rep)
  ELSE <<s[i]>> \o ReplaceAllFrom(s, i + 1, pat, rep)

ReplaceAll(s, pat, rep) == ReplaceAllFrom(s, 1, pat, rep)

DecodeEntitiesNamedOnly(s) ==
  LET s1 == ReplaceAll(s, <<"&", "nbsp", ";">>, <<" ">>)
      s2 == ReplaceAll(s1, <<"&", "amp", ";">>, <<"&">>)
      s3 == ReplaceAll(s2, <<"&", "lt", ";">>, <<"<">>)
      s4 == ReplaceAll(s3, <<"&", "gt", ";">>, <<">">>)
      s5 == ReplaceAll(s4, <<"&", "quot", ";">>, <<"\"">>)
  IN s5

\* the six entity replacements, in the order of the source
DecodeEntities(s) ==
  LET s1 == ReplaceAll(s, <<"&", "nbsp", ";">>, <<" ">>)
      s2 == ReplaceAll(s1, <<"&", "amp", ";">>, <<"&">>)
      s3 == ReplaceAll(s2, <<"&", "lt", ";">>, <<"<">>)
      s4 == ReplaceAll(s3, <<"&", "gt", ";">>, <<">">>)
      s5 == ReplaceAll(s4, <<"&", "quot", ";">>, <<"\"">>)
      s6 == ReplaceAll(s5, <<"&", "#39", ";">>, <<"'">>)
  IN s6

\* .replace(/\s+/g, ' ')
RECURSIVE CollapseWsFrom(_, _)
CollapseWsFrom(s, i) ==
  IF i > Len(s) THEN <<>>
  ELSE IF IsWs(s[i])
       THEN IF i > 1 /\ IsWs(s[i - 1])
            THEN CollapseWsFrom(s, i + 1)
            ELSE <<" ">> \o CollapseWsFrom(s, i + 1)
  ELSE <<s[i]>> \o CollapseWsFrom(s, i + 1)

CollapseWs(s) == CollapseWsFrom(s, 1)

\* .trim()
RECURSIVE TrimLeft(_)
TrimLeft(s) == IF Len(s) > 0 /\ IsWs(s[1]) THEN TrimLeft(Tail(s)) ELSE s

RECURSIVE TrimRight(_)
TrimRight(s) ==
  IF Len(s) > 0 /\ IsWs(s[Len(s)]) THEN TrimRight(SubSeq(s, 1, Len(s) - 1)) ELSE s

Trim(s) == TrimRight(TrimLeft(s))

stripHtmlReturnsInput(html) ==
  IF ~Truthy(html) THEN html
  ELSE Str(Trim(CollapseWs(DecodeEntities(StripTags(html.str)))))

stripHtmlKeepsTags(html) ==
  IF ~Truthy(html) THEN EmptyStr
  ELSE Str(Trim(CollapseWs(DecodeEntities(html.str))))

stripHtmlCollapsesFirst(html) ==
  IF ~Truthy(html) THEN EmptyStr
  ELSE Str(Trim(DecodeEntities(CollapseWs(StripTags(html.str)))))

stripHtml(html) ==
  IF ~Truthy(html) THEN EmptyStr
  ELSE Str(Trim(CollapseWs(DecodeEntities(StripTags(html.str)))))

(***************************************************************************)
(* lib/utils.js: getEntityUrl, formatEntity                                *)
(***************************************************************************)
\* encodeURIComponent, for the characters of the model it changes
EncodeURIComponent(s) ==
  [i \in 1..Len(s) |->
     IF s[i] = "/" THEN "%2F"
     ELSE IF s[i] = " " THEN "%20"
     ELSE IF s[i] = "&" THEN "%26"
     ELSE IF s[i] = "<" THEN "%3C"
     ELSE IF s[i] = ">" THEN "%3E"
     ELSE s[i]]

getEntityUrlEscaped(entityType, entityId) ==
  Str(<<"https://zapier.productboard.com/feature-board/165206/detail/">>
      \o EncodeURIComponent(ToString(entityType)) \o <<"/">>
      \o EncodeURIComponent(ToString(entityId)))

getEntityUrl(entityType, entityId) ==
  Str(<<"https://zapier.productboard.com/feature-board/165206/detail/">>
      \o ToString(entityType) \o <<"/">> \o ToString(entityId))

formatHealth(health) ==
  IF Truthy(health)
  THEN Obj([id |-> Get(health, "id"),
            status |-> Get(health, "status"),
            previousStatus |-> Or(Get(health, "previousStatus"), EmptyStr),
            mode |-> Get(health, "mode"),
            comment |-> Or(Get(health, "comment"), EmptyStr),
            commentPlainText |-> stripHtml(Get(health, "comment")),
            lastUpdatedAt |-> Get(health, "lastUpdatedAt"),
            updatedByEmail |-> Or(OptGet(Get(health, "createdBy"), "email"), EmptyStr),
            updatedById |-> Or(OptGet(Get(health, "createdBy"), "id"), EmptyStr)])
  ELSE Null

formatEntity(entity) ==
  LET fields == Or(Get(entity, "fields"), EmptyObj)
      health == Or(Get(fields, "health"), Null)
  IN Obj([id |-> Get(entity, "id"),
          type |-> Get(entity, "type"),
          name |-> Or(Get(fields, "name"), EmptyStr),
          description |-> Or(Get(fields, "description"), EmptyStr),
          descriptionPlainText |-> stripHtml(Get(fields, "description")),
          url |-> getEntityUrl(Get(entity, "type"), Get(entity, "id")),
          status |-> Or(OptGet(Get(fields, "status"), "name"), EmptyStr),
          statusId |-> Or(OptGet(Get(fields, "status"), "id"), EmptyStr),
          archived |-> Or(Get(fields, "archived"), Bool(FALSE)),
          ownerEmail |-> Or(OptGet(Get(fields, "owner"), "email"), EmptyStr),
          ownerId |-> Or(OptGet(Get(fields, "owner"), "id"), EmptyStr),
          startDate |-> Or(OptGet(Get(fields, "timeframe"), "startDate"), EmptyStr),
          endDate |-> Or(OptGet(Get(fields, "timeframe"), "endDate"), EmptyStr),
          createdAt |-> Get(entity, "createdAt"),
          updatedAt |-> Get(entity, "updatedAt"),
          health |-> formatHealth(health)])

(***************************************************************************)
(* index.js: the request and response middleware                           *)
(***************************************************************************)
\* an object with property k set to v
SetKey(o, k, v) ==
  Obj([x \in (DOMAIN o.obj) \cup {k} |-> IF x = k THEN v ELSE o.obj[x]])

\* a request as a handler hands it to z.request
Request(method, url, body, params) ==
  [method |-> method, url |-> url, body |-> body, params |-> params,
   headers |-> Undefined]

addAuthHeaderRawToken(request, bundle) ==
  IF Truthy(Get(Get(bundle, "authData"), "apiToken"))
  THEN LET h0 == Or(request.headers, EmptyObj)
           h1 == SetKey(h0, "Authorization", Get(Get(bundle, "authData"), "apiToken"))
           h2 == SetKey(h1, "Content-Type", Str(<<"application/json">>))
           h3 == SetKey(h2, "Accept", Str(<<"application/json">>))
       IN [request EXCEPT !.headers = h3]
  ELSE request

\* beforeRequest: [addAuthHeader]
addAuthHeader(request, bundle) ==
  IF Truthy(Get(Get(bundle, "authData"), "apiToken"))
  THEN LET h0 == Or(request.headers, EmptyObj)
           h1 == SetKey(h0, "Authorization",
                        Str(<<"Bearer ">>
                            \o ToString(Get(Get(bundle, "authData"), "apiToken"))))
           h2 == SetKey(h1, "Content-Type", Str(<<"application/json">>))
           h3 == SetKey(h2, "Accept", Str(<<"application/json">>))
       IN [request EXCEPT !.headers = h3]
  ELSE request

\* response.status >= 400
isErrorStatusAbove400(status) == status > 400
isErrorStatusNot2xx(status) == status >= 300
isErrorStatus(status) == status >= 400

\* new z.errors.Error(message, code, status)
ZError(message, code, status) ==
  [message |-> message, code |-> code, status |-> status]

\* what z.request settles with: the response, or the error thrown
Resolve(response) == [kind |-> "resolve", response |-> response]
Reject(error) == [kind |-> "reject", error |-> error]

\* the generic branch of handleErrors
genericMessage(errorBody) ==
  Or(Get(errorBody, "message"), Or(Get(errorBody, "error"), Str(<<"Unknown API error">>)))

\* afterResponse: [handleErrors]
handleErrors(response) ==
  IF isErrorStatus(response.status)
  THEN LET errorBody == Or(response.data, EmptyObj)
       IN IF response.status = 401
          THEN Reject(ZError(
                 <<"Authentication failed. Please check your Productboard API token.">>,
                 "AuthenticationError", response.status))
          ELSE IF response.status = 403
          THEN Reject(ZError(
                 <<"Access denied. Your API token may not have permission for this action.">>,
                 "ForbiddenError", response.status))
          ELSE IF response.status = 404
          THEN Reject(ZError(
                 <<"Resource not found. The entity ID may be incorrect.">>,
                 "NotFoundError", response.status))
          ELSE IF response.status = 429
          THEN Reject(ZError(
                 <<"Rate limit exceeded. Productboard allows 50 requests/second. Please retry.">>,
                 "RateLimitError", response.status))
          ELSE Reject(ZError(
                 <<"Productboard API error: ">> \o ToString(genericMessage(errorBody)),
                 "ApiError", response.status))
  ELSE Resolve(response)

\* what a handler returns to the host, or throws at it
Pending == [kind |-> "pending"]
Return(value) == [kind |-> "return", value |-> value]
Throw(error) == [kind |-> "throw", error |-> error]

\* response.data.data || response.data
Unwrap(response) == Or(Get(response.data, "data"), response.data)

(***************************************************************************)
(* The handlers: for each, the request(s) it builds and what it does with  *)
(* the settled z.request                                                   *)
(***************************************************************************)
Input(bundle, k) == Get(Get(bundle, "inputData"), k)

ApiBase == <<"https://api.productboard.com/v2/">>

\* ---- searches/getEntity.js
getEntityRequest(bundle) ==
  Request("GET", ApiBase \o <<"entities/">> \o ToString(Input(bundle, "entityId")),
          Undefined, Undefined)

getEntityCatchRethrows(error) == Throw(error)

getEntityCatch(error) ==
  IF error.status = 404 THEN Return(Arr(<<>>)) ELSE Throw(error)

getEntitySettled(bundle, d) ==
  IF d.kind = "resolve"
  THEN Return(Arr(<<formatEntity(Unwrap(d.response))>>))
  ELSE getEntityCatch(d.error)

\* ---- searches/getEntityRelationships.js, the two revisions
getEntityRelationshipsRequest(bundle) ==
  Request("GET",
          ApiBase \o <<"entities/">> \o ToString(Input(bundle, "entityId"))
                  \o <<"/relationships">>,
          Undefined, Undefined)

\* Array.isArray(data) ? data : [data]
AsArray(data) == IF IsArr(data) THEN data ELSE Arr(<<data>>)

formatRelationshipA(entityId, rel) ==
  LET relatedEntity == Get(rel, "relatedEntity")
  IN Obj([id |-> Or(Get(rel, "id"),
                    Str(ToString(entityId) \o <<"_">>
                        \o ToString(OptGet(relatedEntity, "id")))),
          sourceEntityId |-> entityId,
          relationshipType |->
            Or(Get(rel, "type"), Or(Get(rel, "relationshipType"), EmptyStr)),
          direction |-> Or(Get(rel, "direction"), EmptyStr),
          relatedEntityId |->
            Or(OptGet(relatedEntity, "id"), Or(Get(rel, "targetId"), EmptyStr)),
          relatedEntityType |->
            Or(OptGet(relatedEntity, "type"), Or(Get(rel, "targetType"), EmptyStr)),
          relatedEntityName |->
            Or(OptGet(OptGet(relatedEntity, "fields"), "name"),
               Or(Get(rel, "targetName"), EmptyStr)),
          createdAt |-> Or(Get(rel, "createdAt"), EmptyStr)])

formatRelationshipB(entityId, rel) ==
  LET target == Get(rel, "target")
  IN Obj([id |-> Str(ToString(entityId) \o <<"_">>
                     \o ToString(Or(OptGet(target, "id"), Str(<<"unknown">>)))),
          sourceEntityId |-> entityId,
          relationshipType |-> Or(Get(rel, "type"), EmptyStr),
          relatedEntityId |-> Or(OptGet(target, "id"), EmptyStr),
          relatedEntityType |-> Or(OptGet(target, "type"), EmptyStr),
          relatedEntityUrl |-> Or(OptGet(OptGet(target, "links"), "self"), EmptyStr)])

getEntityRelationshipsCatchAll(error) == Return(Arr(<<>>))

getEntityRelationshipsCatch(error) ==
  IF error.status = 404 THEN Return(Arr(<<>>)) ELSE Throw(error)

getEntityRelationshipsSettledA(bundle, d) ==
  IF d.kind = "resolve"
  THEN LET relationships == AsArray(Unwrap(d.response)).arr
       IN Return(Arr([i \in 1..Len(relationships) |->
                        formatRelationshipA(Input(bundle, "entityId"), relationships[i])]))
  ELSE getEntityRelationshipsCatch(d.error)

getEntityRelationshipsSettledB(bundle, d) ==
  IF d.kind = "resolve"
  THEN LET relationships == AsArray(Unwrap(d.response)).arr
       IN Return(Arr([i \in 1..Len(relationships) |->
                        formatRelationshipB(Input(bundle, "entityId"), relationships[i])]))
  ELSE getEntityRelationshipsCatch(d.error)

\* ---- creates/createNoteRelationship.js
createNoteRelationshipRequest(bundle) ==
  Request("POST",
          ApiBase \o <<"notes/">> \o ToString(Input(bundle, "noteId"))
                  \o <<"/relationships">>,
          Obj([data |-> Obj([type |-> Str(<<"link">>),
                             target |-> Obj([id |-> Input(bundle, "targetEntityId"),
                                             type |-> Str(<<"link">>)])])]),
          Undefined)

createNoteRelationshipSettled(bundle, d) ==
  IF d.kind = "resolve"
  THEN LET note == Unwrap(d.response)
       IN Return(Obj([success |-> Bool(TRUE),
                      noteId |-> Input(bundle, "noteId"),
                      targetEntityId |-> Input(bundle, "targetEntityId"),
                      noteType |-> Or(Get(note, "type"), Str(<<"simple">>)),
                      noteSelfLink |->
                        Or(OptGet(Get(note, "links"), "self"),
                           Str(ApiBase \o <<"notes/">>
                               \o ToString(Input(bundle, "noteId"))))]))
  ELSE Throw(d.error)

\* ---- authentication.js
testAuthRequest == Request("GET", ApiBase \o <<"entities/configurations">>,
                           Undefined, Undefined)

testAuthSettled(d) ==
  IF d.kind = "resolve"
  THEN Return(Obj([id |-> Str(<<"productboard_connection">>),
                   name |-> Str(<<"Productboard API v2">>)]))
  ELSE Throw(d.error)

\* ---- searches/listEntities.js
\* s.split(',')
RECURSIVE Split(_)
Split(s) ==
  IF \E i \in 1..Len(s) : s[i] = ","
  THEN LET i == CHOOSE i \in 1..Len(s) :
                  s[i] = "," /\ \A k \in 1..(i - 1) : s[k] # ","
       IN <<SubSeq(s, 1, i - 1)>> \o Split(SubSeq(s, i + 1, Len(s)))
  ELSE <<s>>

SplitListUntrimmed(v) ==
  IF IsArr(v) THEN v
  ELSE Arr([i \in 1..Len(Split(v.str)) |-> Str(Split(v.str)[i])])

\* Array.isArray(v) ? v : v.split(',').map(e => e.trim())
SplitList(v) ==
  IF IsArr(v) THEN v
  ELSE Arr([i \in 1..Len(Split(v.str)) |-> Str(Trim(Split(v.str)[i]))])

IdFilterKeys ==
  [parent |-> "parentId", component |-> "componentId", product |-> "productId",
   initiative |-> "initiativeId", objective |-> "objectiveId", release |-> "releaseId"]

hasArchivedFilterUnlessEmpty(archived) == Truthy(archived)

\* archived && archived !== 'all'
hasArchivedFilter(archived) == Truthy(archived) /\ archived # Str(<<"all">>)

\* archived === 'true'
archivedFilter(archived) == Bool(archived = Str(<<"true">>))

timeframeFilterOfBoth(startDate, endDate) ==
  IF Truthy(startDate) \/ Truthy(endDate)
  THEN Obj([startDate |-> startDate, endDate |-> endDate])
  ELSE Undefined

\* searchData.timeframe, undefined when it is not set
timeframeFilter(startDate, endDate) ==
  IF Truthy(startDate) \/ Truthy(endDate)
  THEN Obj([k \in {x \in {"startDate", "endDate"} :
                     Truthy(IF x = "startDate" THEN startDate ELSE endDate)} |->
              IF k = "startDate" THEN startDate ELSE endDate])
  ELSE Undefined

searchData(bundle) ==
  LET in(k) == Input(bundle, k)
      emails == SplitList(in("ownerEmails")).arr
      names == SplitList(in("statusNames")).arr
      timeframe == timeframeFilter(in("startDate"), in("endDate"))
      keys ==
        {"fields"}
        \cup (IF Truthy(in("entityType")) THEN {"type"} ELSE {})
        \cup (IF Truthy(in("ownerEmails")) THEN {"owners"} ELSE {})
        \cup (IF Truthy(in("statusNames")) THEN {"statuses"} ELSE {})
        \cup (IF Truthy(in("healthStatus")) THEN {"health"} ELSE {})
        \cup (IF hasArchivedFilter(in("archived")) THEN {"archived"} ELSE {})
        \cup {k \in DOMAIN IdFilterKeys : Truthy(in(IdFilterKeys[k]))}
        \cup (IF timeframe # Undefined THEN {"timeframe"} ELSE {})
  IN Obj([k \in keys |->
            IF k = "fields" THEN Str(<<"default">>)
            ELSE IF k = "type" THEN in("entityType")
            ELSE IF k = "owners"
                 THEN Arr([i \in 1..Len(emails) |-> Obj([email |-> emails[i]])])
            ELSE IF k = "statuses"
                 THEN Arr([i \in 1..Len(names) |-> Obj([name |-> names[i]])])
            ELSE IF k = "health" THEN Obj([status |-> in("healthStatus")])
            ELSE IF k = "archived" THEN archivedFilter(in("archived"))
            ELSE IF k = "timeframe" THEN timeframe
            ELSE Obj([id |-> in(IdFilterKeys[k])])])

listEntitiesRequest(bundle) ==
  Request("POST", ApiBase \o <<"entities/search">>,
          Obj([data |-> searchData(bundle)]), Undefined)

listEntitiesSettled(d) ==
  IF d.kind = "resolve"
  THEN LET entities == Or(Get(d.response.data, "data"), Arr(<<>>)).arr
       IN Return(Arr([i \in 1..Len(entities) |-> formatEntity(entities[i])]))
  ELSE Throw(d.error)

\* ---- creates/createHealthUpdate.js
healthUpdateAlwaysWraps(bundle) ==
  LET in(k) == Input(bundle, k)
      comment == in("comment")
      keys == {"status", "mode"}
              \cup (IF Truthy(comment) THEN {"comment"} ELSE {})
              \cup (IF Truthy(in("createdById")) THEN {"createdBy"} ELSE {})
  IN Obj([k \in keys |->
            IF k = "status" THEN in("status")
            ELSE IF k = "mode" THEN Or(in("mode"), Str(<<"manual">>))
            ELSE IF k = "comment"
                 THEN Str(<<"<", "p", ">">> \o comment.str \o <<"<", "/", "p", ">">>)
            ELSE Obj([id |-> in("createdById")])])

healthUpdate(bundle) ==
  LET in(k) == Input(bundle, k)
      comment == in("comment")
      keys == {"status", "mode"}
              \cup (IF Truthy(comment) THEN {"comment"} ELSE {})
              \cup (IF Truthy(in("createdById")) THEN {"createdBy"} ELSE {})
  IN Obj([k \in keys |->
            IF k = "status" THEN in("status")
            ELSE IF k = "mode" THEN Or(in("mode"), Str(<<"manual">>))
            ELSE IF k = "comment"
                 THEN (IF comment.str[1] = "<" THEN comment
                       ELSE Str(<<"<", "p", ">">> \o comment.str \o <<"<", "/", "p", ">">>))
            ELSE Obj([id |-> in("createdById")])])

createHealthUpdatePatch(bundle) ==
  Request("PATCH", ApiBase \o <<"entities/">> \o ToString(Input(bundle, "entityId")),
          Obj([data |-> Obj([fields |-> Obj([health |-> healthUpdate(bundle)])])]),
          Undefined)

createHealthUpdateGet(bundle) ==
  Request("GET", ApiBase \o <<"entities/">> \o ToString(Input(bundle, "entityId")),
          Undefined, Undefined)

createHealthUpdateFromPatch(patched, fetched) ==
  IF fetched.kind = "resolve"
  THEN Return(formatEntity(Unwrap(patched.response)))
  ELSE Throw(fetched.error)

\* patched, fetched: what the PATCH and the GET settled with
createHealthUpdateSettled(patched, fetched) ==
  IF fetched.kind = "resolve"
  THEN Return(formatEntity(Unwrap(fetched.response)))
  ELSE Throw(fetched.error)

\* ---- triggers/healthUpdates.js
healthUpdatesRequest(bundle) ==
  Request("GET", ApiBase \o <<"entities">>, Undefined,
          Obj([k \in (IF Truthy(Input(bundle, "entityType")) THEN {"type"} ELSE {}) |->
                 Input(bundle, "entityType")]))

\* the ISO-8601 timestamps of the model, oldest first: Date gives each the
\* time value of its position, and NaN to anything else
Timestamps ==
  <<"2025-01-01T00:00:00Z", "2025-06-01T00:00:00Z", "2025-12-13T12:00:00Z">>

ValidDate(v) == IsStr(v) /\ \E i \in 1..Len(Timestamps) : v.str = <<Timestamps[i]>>

DateValue(v) == CHOOSE i \in 1..Len(Timestamps) : v.str = <<Timestamps[i]>>

\* (a, b) => new Date(b.health.lastUpdatedAt) - new Date(a.health.lastUpdatedAt),
\* a NaN read by the sort as +0
byHealthTime(a, b) ==
  LET ta == Get(Get(a, "health"), "lastUpdatedAt")
      tb == Get(Get(b, "health"), "lastUpdatedAt")
  IN IF ValidDate(ta) /\ ValidDate(tb) THEN DateValue(tb) - DateValue(ta) ELSE 0

\* the comparator is a consistent one over the elements of l (ECMAScript,
\* Array.prototype.sort)
ConsistentComparator(l) ==
  \A i, j, k \in 1..Len(l) :
    /\ (byHealthTime(l[i], l[j]) < 0) = (byHealthTime(l[j], l[i]) > 0)
    /\ (byHealthTime(l[i], l[j]) = 0 /\ byHealthTime(l[j], l[k]) = 0)
         => byHealthTime(l[i], l[k]) = 0
    /\ (byHealthTime(l[i], l[j]) < 0 /\ byHealthTime(l[j], l[k]) < 0)
         => byHealthTime(l[i], l[k]) < 0

Orders(n) == {p \in [1..n -> 1..n] : \A i, j \in 1..n : i # j => p[i] # p[j]}

\* .sort(byHealthTime): the stable sorted order of a consistent comparator,
\* an implementation-defined order of any other
SortOrders(l) ==
  IF ConsistentComparator(l)
  THEN {p \in Orders(Len(l)) :
          \A i, j \in 1..Len(l) :
            i < j => \/ byHealthTime(l[p[i]], l[p[j]]) < 0
                     \/ byHealthTime(l[p[i]], l[p[j]]) = 0 /\ p[i] < p[j]}
  ELSE Orders(Len(l))

hasHealthUpdateAnyHealth(entity) ==
  Truthy(OptGet(Get(entity, "fields"), "health"))

hasHealthUpdate(entity) ==
  Truthy(OptGet(OptGet(Get(entity, "fields"), "health"), "id"))

\* { ...formatted, id: formatted.health.id, entityId: entity.id }
healthUpdateRecord(entity) ==
  LET formatted == formatEntity(entity)
  IN SetKey(SetKey(formatted, "id", Get(Get(formatted, "health"), "id")),
            "entityId", Get(entity, "id"))

TypeError == [message |-> <<"Cannot read properties of null">>, code |-> "TypeError",
              status |-> Undefined]

\* the outcomes of the trigger: one per order the sort may leave
healthUpdatesSettled(d) ==
  IF d.kind = "resolve"
  THEN LET entities == Or(Get(d.response.data, "data"), Arr(<<>>))
           kept == SelectSeq(entities.arr, hasHealthUpdate)
           recs == [i \in 1..Len(kept) |-> healthUpdateRecord(kept[i])]
       IN IF \E i \in 1..Len(kept) : Get(formatEntity(kept[i]), "health") = Null
          THEN {Throw(TypeError)}
          ELSE {Return(Arr([i \in 1..Len(recs) |-> recs[p[i]]])) : p \in SortOrders(recs)}
  ELSE {Throw(d.error)}

(***************************************************************************)
(* The upstream API and the host: what may be answered, what may be asked  *)
(***************************************************************************)
MaxEntities == 2
MaxRelationships == 2

\* all sequences over S of length at most n
RECURSIVE SeqsUpTo(_, _)
SeqsUpTo(S, n) ==
  IF n = 0 THEN {<<>>}
  ELSE SeqsUpTo(S, n - 1)
       \cup {Append(q, x) : q \in {q \in SeqsUpTo(S, n - 1) : Len(q) = n - 1}, x \in S}

SuccessStatuses == {200, 399}
ErrorStatuses == {400, 401, 403, 404, 429, 500}

S1(tok) == Str(<<tok>>)

ErrorBodies ==
  { Undefined,
    EmptyObj,
    Obj([message |-> S1("m")]),
    Obj([error |-> S1("e")]),
    Obj([message |-> S1("m"), error |-> S1("e")]),
    Obj([error |-> Obj([message |-> S1("n")])]),
    Obj([errors |-> Arr(<<Obj([message |-> S1("x")]), Obj([detail |-> S1("y")])>>)]),
    Obj([detail |-> S1("d")]),
    Obj([title |-> S1("t")]),
    Obj([foo |-> S1("bar")]) }

HtmlOk == Str(<<"<", "p", ">", "ok", "<", "/", "p", ">">>)
HtmlRich ==
  Str(<<"<", "p", ">", "a", "&", "nbsp", ";", " ", "b", "<", "/", "p", ">", "\n",
        "<", "b", ">", "c", "&", "amp", ";", "d", "<", "/", "b", ">">>)

RawHealths ==
  { Obj([status |-> S1("onTrack"), mode |-> S1("manual"), comment |-> HtmlOk]),
    Obj([id |-> S1("h1"), status |-> S1("atRisk"), previousStatus |-> S1("onTrack"),
         mode |-> S1("calculated"), comment |-> HtmlRich,
         lastUpdatedAt |-> S1(Timestamps[1]),
         createdBy |-> Obj([email |-> S1("pm@example.com"), id |-> S1("m1")])]),
    Obj([id |-> S1("h2"), lastUpdatedAt |-> S1(Timestamps[3]),
         createdBy |-> Obj([email |-> S1("pm@example.com")])]),
    Obj([id |-> S1("h3"), status |-> S1("offTrack")]),
    EmptyObj }

RawEntities ==
  { EmptyObj,
    Obj([id |-> S1("e0"), type |-> S1("feature"), fields |-> Null]),
    Obj([id |-> S1("e3"), type |-> S1("initiative"),
         createdAt |-> S1(Timestamps[1]), updatedAt |-> S1(Timestamps[2]),
         fields |-> Obj([name |-> S1("Dark Mode"), description |-> HtmlRich,
                         status |-> Obj([name |-> S1("Planned"), id |-> S1("s1")]),
                         owner |-> Obj([email |-> S1("pm@example.com"), id |-> S1("m1")]),
                         timeframe |-> Obj([startDate |-> S1("2025-02-01"),
                                            endDate |-> S1("2025-04-30")]),
                         archived |-> Bool(TRUE)])]),
    Obj([id |-> S1("e4"), type |-> S1("objective"),
         fields |-> Obj([name |-> S1("Growth"), status |-> Obj([name |-> S1("Done")]),
                         owner |-> Obj([id |-> S1("m2")]),
                         timeframe |-> Obj([endDate |-> S1("2025-04-30")]),
                         archived |-> Bool(FALSE), health |-> Null])]) }
  \cup {Obj([id |-> S1("e1"), type |-> S1("feature"), fields |-> Obj([health |-> h])]) :
          h \in RawHealths}

RawRelationships ==
  { Obj([id |-> S1("r1"), type |-> S1("parent"), direction |-> S1("outbound"),
         relatedEntity |-> Obj([id |-> S1("e2"), type |-> S1("initiative"),
                                fields |-> Obj([name |-> S1("Q1")])]),
         createdAt |-> S1(Timestamps[2])]),
    Obj([type |-> S1("link"),
         target |-> Obj([id |-> S1("e2"), type |-> S1("feature"),
                         links |-> Obj([self |-> S1("https://api.productboard.com/v2/entities/e2")])])]),
    Obj([relationshipType |-> S1("child"), targetId |-> S1("e3"),
         targetType |-> S1("feature"), targetName |-> S1("Login")]),
    EmptyObj }

RawNotes ==
  { Obj([type |-> S1("conversation"),
         links |-> Obj([self |-> S1("https://api.productboard.com/v2/notes/n1")])]),
    Obj([id |-> S1("n1")]) }

\* a body as {data: x} and as the bare x
Wrapped(S) == {Obj([data |-> x]) : x \in S} \cup S

Responses(statuses, bodies) == {[status |-> st, data |-> b] : st \in statuses, b \in bodies}

ErrorReplies == Responses(ErrorStatuses, ErrorBodies)

EntityReplies == ErrorReplies \cup Responses(SuccessStatuses, Wrapped(RawEntities))

ListReplies ==
  ErrorReplies
  \cup Responses(SuccessStatuses,
                 {EmptyObj} \cup {Obj([data |-> Arr(l)]) : l \in SeqsUpTo(RawEntities, MaxEntities)})

RelationshipReplies ==
  ErrorReplies
  \cup Responses(SuccessStatuses,
                 Wrapped({Arr(l) : l \in SeqsUpTo(RawRelationships, MaxRelationships)})
                 \cup Wrapped(RawRelationships))

NoteReplies == ErrorReplies \cup Responses(SuccessStatuses, Wrapped(RawNotes))

PatchReplies ==
  ErrorReplies
  \cup Responses(SuccessStatuses,
                 {EmptyObj, Obj([data |-> Obj([id |-> S1("e9"), type |-> S1("release")])])})

ConfigReplies == ErrorReplies \cup Responses(SuccessStatuses, {Obj([data |-> Arr(<<>>)])})

\* the bundles the host may invoke a handler with
ApiTokens == {S1("pb_token"), S1("pb_other")}

Bundles(inputs) ==
  {Obj([authData |-> Obj([apiToken |-> t]), inputData |-> i]) : t \in ApiTokens, i \in inputs}

EntityIdInputs ==
  {EmptyObj, Obj([entityId |-> EmptyStr]), Obj([entityId |-> S1("e1")])}

\* what the host may pass for a multi-valued field: a comma-separated string
\* as typed by the user, or an array
ListValues ==
  { EmptyStr,
    Str(<<"a">>),
    Str(<<"b", ",", "a">>),
    Str(<<"a", ",", "a">>),
    Str(<<" ", "a", " ", ",", "\t", "b", " ", " ">>),
    Str(<<"a", ",">>),
    Str(<<",">>),
    Str(<<" ">>),
    Str(<<"In Progress", ",", " ", "Done">>),
    Arr(<<>>),
    Arr(<<S1("pm@example.com")>>),
    Arr(<<S1("b"), S1("a")>>),
    Arr(<<Str(<<" ", "a", " ">>), EmptyStr>>) }

ArchivedValues == {EmptyStr, S1("true"), S1("false"), S1("all"), S1("archived")}

DateValues == {EmptyStr, S1("2025-01-01"), S1("2025-03-31")}

ListInputs ==
  { EmptyObj,
    Obj([entityType |-> S1("feature")]),
    Obj([archived |-> S1("all")]),
    Obj([archived |-> S1("true"), startDate |-> S1("2025-01-01")]),
    Obj([entityType |-> S1("feature"), archived |-> S1("false"),
         statusNames |-> Str(<<"In Progress", ",", " ", "Done">>),
         ownerEmails |-> Arr(<<S1("pm@example.com")>>),
         healthStatus |-> S1("atRisk"), parentId |-> S1("e3"),
         endDate |-> S1("2025-03-31")]) }

\* an object of the given properties without those that are undefined
Defined(o) == Obj([k \in {x \in DOMAIN o : o[x] # Undefined} |-> o[k]])

\* the inputs of listEntities one filter at a time and in combination
FilterInputs ==
  ListInputs
  \cup {Defined([statusNames |-> v, ownerEmails |-> w, entityType |-> t]) :
          v \in ListValues \cup {Undefined},
          w \in {Undefined, Str(<<"b", ",", " ", "a">>), Str(<<",">>), Arr(<<>>),
                 Arr(<<Str(<<" ", "a", " ">>), EmptyStr>>)},
          t \in {Undefined, S1("feature")}}
  \cup {Defined([archived |-> a, startDate |-> v, endDate |-> w]) :
          a \in ArchivedValues \cup {Undefined},
          v \in DateValues \cup {Undefined}, w \in DateValues \cup {Undefined}}
  \cup {Defined([entityType |-> t, healthStatus |-> h]) :
          t \in {Undefined, EmptyStr, S1("feature")},
          h \in {Undefined, EmptyStr, S1("atRisk")}}
  \cup {Obj([k \in {IdFilterKeys[f]} |-> v]) :
          f \in DOMAIN IdFilterKeys, v \in {EmptyStr, S1("e3")}}

TriggerInputs == {EmptyObj, Obj([entityType |-> S1("feature")])}

NoteInputs == {Obj([noteId |-> S1("n1"), targetEntityId |-> S1("e1")])}

HealthInputs ==
  {Obj([k \in {"entityId", "status"} \cup DOMAIN o.obj |->
          IF k = "entityId" THEN S1("e1")
          ELSE IF k = "status" THEN st
          ELSE o.obj[k]]) :
     st \in {S1("onTrack"), S1("atRisk")},
     o \in {EmptyObj,
            Obj([comment |-> S1("looks good")]),
            Obj([comment |-> HtmlOk, mode |-> S1("calculated")]),
            Obj([mode |-> S1("manual"), createdById |-> S1("m1")])}}

(***************************************************************************)
(* The state machine: the host invokes one handler at a time; a handler    *)
(* runs up to its next await in one step, and on from the settled request  *)
(* in the next                                                             *)
(***************************************************************************)
Init ==
  /\ handler = "none"
  /\ hostBundle = EmptyObj
  /\ pc = "idle"
  /\ sent = <<>>
  /\ inflight = <<>>
  /\ responses = <<>>
  /\ delivered = <<>>
  /\ outcome = Pending
  /\ store = [health |-> Null, sincePatch |-> FALSE]

\* the host starts handler h with bundle b: nothing is carried over
Invoked(h, b) ==
  /\ pc \in {"idle", "done"}
  /\ handler' = h
  /\ hostBundle' = b
  /\ responses' = <<>>
  /\ delivered' = <<>>
  /\ store' = store

\* the first z.request of an invocation
IssueFirst(req, b, at) ==
  /\ sent' = <<addAuthHeader(req, b)>>
  /\ inflight' = <<addAuthHeader(req, b)>>
  /\ outcome' = Pending
  /\ pc' = at

\* the handler returns before any request
ReturnAtOnce(value) ==
  /\ sent' = <<>>
  /\ inflight' = <<>>
  /\ outcome' = Return(value)
  /\ pc' = "done"

\* upstream answers the request in flight with r; afterResponse runs on it
Answered(r) ==
  /\ inflight # <<>>
  /\ responses' = Append(responses, r)
  /\ delivered' = Append(delivered, handleErrors(r))
  /\ inflight' = Tail(inflight)

\* the handler ends with outcome o
Ended(o) ==
  /\ outcome' = o
  /\ pc' = "done"
  /\ UNCHANGED <<handler, hostBundle, sent, store>>

GetEntityStart ==
  \E b \in Bundles(EntityIdInputs) :
    /\ Invoked("getEntity", b)
    /\ IF ~Truthy(Input(b, "entityId"))
       THEN ReturnAtOnce(Arr(<<>>))
       ELSE IssueFirst(getEntityRequest(b), b, "await")

GetEntitySettle ==
  /\ handler = "getEntity" /\ pc = "await"
  /\ \E r \in EntityReplies :
       /\ Answered(r)
       /\ Ended(getEntitySettled(hostBundle, handleErrors(r)))

\* searches/getEntityRelationships.js
GetEntityRelationshipsStartA ==
  \E b \in Bundles(EntityIdInputs) :
    /\ Invoked("getEntityRelationshipsA", b)
    /\ IF ~Truthy(Input(b, "entityId"))
       THEN ReturnAtOnce(Arr(<<>>))
       ELSE IssueFirst(getEntityRelationshipsRequest(b), b, "await")

GetEntityRelationshipsSettleA ==
  /\ handler = "getEntityRelationshipsA" /\ pc = "await"
  /\ \E r \in RelationshipReplies :
       /\ Answered(r)
       /\ Ended(getEntityRelationshipsSettledA(hostBundle, handleErrors(r)))

\* the other revision of getEntityRelationships.js (unnamed/part_003)
GetEntityRelationshipsStartB ==
  \E b \in Bundles(EntityIdInputs) :
    /\ Invoked("getEntityRelationshipsB", b)
    /\ IF ~Truthy(Input(b, "entityId"))
       THEN ReturnAtOnce(Arr(<<>>))
       ELSE IssueFirst(getEntityRelationshipsRequest(b), b, "await")

GetEntityRelationshipsSettleB ==
  /\ handler = "getEntityRelationshipsB" /\ pc = "await"
  /\ \E r \in RelationshipReplies :
       /\ Answered(r)
       /\ Ended(getEntityRelationshipsSettledB(hostBundle, handleErrors(r)))

ListEntitiesStart ==
  \E b \in Bundles(ListInputs) :
    /\ Invoked("listEntities", b)
    /\ IssueFirst(listEntitiesRequest(b), b, "await")

ListEntitiesSettle ==
  /\ handler = "listEntities" /\ pc = "await"
  /\ \E r \in ListReplies :
       /\ Answered(r)
       /\ Ended(listEntitiesSettled(handleErrors(r)))

HealthUpdatesStart ==
  \E b \in Bundles(TriggerInputs) :
    /\ Invoked("healthUpdates", b)
    /\ IssueFirst(healthUpdatesRequest(b), b, "await")

HealthUpdatesSettle ==
  /\ handler = "healthUpdates" /\ pc = "await"
  /\ \E r \in ListReplies :
       /\ Answered(r)
       /\ \E o \in healthUpdatesSettled(handleErrors(r)) : Ended(o)

CreateNoteRelationshipStart ==
  \E b \in Bundles(NoteInputs) :
    /\ Invoked("createNoteRelationship", b)
    /\ IssueFirst(createNoteRelationshipRequest(b), b, "await")

CreateNoteRelationshipSettle ==
  /\ handler = "createNoteRelationship" /\ pc = "await"
  /\ \E r \in NoteReplies :
       /\ Answered(r)
       /\ Ended(createNoteRelationshipSettled(hostBundle, handleErrors(r)))

TestAuthStart ==
  \E b \in Bundles({EmptyObj}) :
    /\ Invoked("testAuth", b)
    /\ IssueFirst(testAuthRequest, b, "await")

TestAuthSettle ==
  /\ handler = "testAuth" /\ pc = "await"
  /\ \E r \in ConfigReplies :
       /\ Answered(r)
       /\ Ended(testAuthSettled(handleErrors(r)))

CreateHealthUpdateStart ==
  \E b \in Bundles(HealthInputs) :
    /\ Invoked("createHealthUpdate", b)
    /\ IssueFirst(createHealthUpdatePatch(b), b, "awaitPatch")

\* a handler that answers a failed PATCH by sending it again
createHealthUpdateRetries(patched) ==
  IF patched.kind = "reject"
  THEN /\ outcome' = Pending
       /\ pc' = "awaitPatch"
       /\ inflight' = <<sent[1]>>
       /\ sent' = Append(sent, sent[1])
  ELSE /\ outcome' = Pending
       /\ pc' = "awaitGet"
       /\ sent' = Append(sent, addAuthHeader(createHealthUpdateGet(hostBundle), hostBundle))
       /\ inflight' = Append(Tail(inflight),
                             addAuthHeader(createHealthUpdateGet(hostBundle), hostBundle))

\* a handler that goes on to the GET whatever the PATCH settled with
createHealthUpdateIgnoresPatchError(patched) ==
  /\ outcome' = Pending
  /\ pc' = "awaitGet"
  /\ sent' = Append(sent, addAuthHeader(createHealthUpdateGet(hostBundle), hostBundle))
  /\ inflight' = Append(Tail(inflight),
                        addAuthHeader(createHealthUpdateGet(hostBundle), hostBundle))

\* what createHealthUpdate does when its PATCH settles: the error leaves the
\* handler, a response lets it go on to the GET
createHealthUpdateAfterPatch(patched) ==
  IF patched.kind = "reject"
  THEN /\ outcome' = Throw(patched.error)
       /\ pc' = "done"
       /\ inflight' = Tail(inflight)
       /\ sent' = sent
  ELSE /\ outcome' = Pending
       /\ pc' = "awaitGet"
       /\ sent' = Append(sent, addAuthHeader(createHealthUpdateGet(hostBundle), hostBundle))
       /\ inflight' = Append(Tail(inflight),
                             addAuthHeader(createHealthUpdateGet(hostBundle), hostBundle))

CreateHealthUpdatePatched ==
  /\ handler = "createHealthUpdate" /\ pc = "awaitPatch"
  /\ inflight # <<>>
  /\ \E r \in PatchReplies :
       /\ responses' = Append(responses, r)
       /\ delivered' = Append(delivered, handleErrors(r))
       /\ createHealthUpdateAfterPatch(handleErrors(r))
  /\ UNCHANGED <<handler, hostBundle, store>>

CreateHealthUpdateFetched ==
  /\ handler = "createHealthUpdate" /\ pc = "awaitGet"
  /\ \E r \in EntityReplies :
       /\ Answered(r)
       /\ Ended(createHealthUpdateSettled(delivered[1], handleErrors(r)))

Next ==
  \/ GetEntityStart
  \/ GetEntitySettle
  \/ GetEntityRelationshipsStartA
  \/ GetEntityRelationshipsSettleA
  \/ GetEntityRelationshipsStartB
  \/ GetEntityRelationshipsSettleB
  \/ ListEntitiesStart
  \/ ListEntitiesSettle
  \/ HealthUpdatesStart
  \/ HealthUpdatesSettle
  \/ CreateNoteRelationshipStart
  \/ CreateNoteRelationshipSettle
  \/ TestAuthStart
  \/ TestAuthSettle
  \/ CreateHealthUpdateStart
  \/ CreateHealthUpdatePatched
  \/ CreateHealthUpdateFetched

Spec == Init /\ [][Next]_vars

\* listEntities up to its z.request, over all the filter inputs
BuildSearch ==
  \E b \in Bundles(FilterInputs) :
    /\ Invoked("listEntities", b)
    /\ IssueFirst(listEntitiesRequest(b), b, "await")

FilterSpec == Init /\ [][BuildSearch]_vars

\* rich text as the API returns it: tags, the entities stripHtml knows and
\* text, up to MaxPieces of them in a row
MaxPieces == 3

HtmlTags ==
  { <<"<", "p", ">">>, <<"<", "/", "p", ">">>,
    <<"<", "a", " ", "title=", "&", "lt", ";", "&", "nbsp", ";", ">">> }

EntityNames == {"nbsp", "amp", "lt", "gt", "quot", "#39"}

HtmlEntities == {<<"&", n, ";">> : n \in EntityNames}

HtmlText ==
  {<<"a">>, <<" ">>, <<"\n">>, <<"a", " ">>, <<"\t", "a">>, <<"lt", ";">>, <<"amp", ";">>}

RECURSIVE Flatten(_)
Flatten(q) == IF q = <<>> THEN <<>> ELSE Head(q) \o Flatten(Tail(q))

HtmlInputs ==
  {Null, Undefined}
  \cup {Str(Flatten(q)) : q \in SeqsUpTo(HtmlTags \cup HtmlEntities \cup HtmlText, MaxPieces)}

\* one call of stripHtml
Sanitize ==
  /\ pc = "idle"
  /\ \E html \in HtmlInputs :
       /\ Invoked("stripHtml", Obj([inputData |-> Obj([html |-> html])]))
       /\ ReturnAtOnce(stripHtml(html))

SanitizeSpec == Init /\ [][Sanitize]_vars

\* the entity types of the integration and ids as the API may give them
EntityTypes ==
  {S1(t) : t \in {"product", "component", "feature", "subfeature", "initiative",
                  "objective", "keyResult", "release", "releaseGroup"}}

MaxIdTokens == 2

EntityIds ==
  {Str(q) : q \in SeqsUpTo({"017a2f72", "/", " ", "&"}, MaxIdTokens) \ {<<>>}}
  \cup {Str(<<"a", "<", "b", ">">>), Str(<<"..", "/", "x">>)}

\* one call of getEntityUrl
BuildUrl ==
  /\ pc = "idle"
  /\ \E t \in EntityTypes, i \in EntityIds :
       /\ Invoked("getEntityUrl", Obj([inputData |-> Obj([entityType |-> t, entityId |-> i])]))
       /\ ReturnAtOnce(getEntityUrl(t, i))

\* one call of formatEntity
FormatEntity ==
  /\ pc = "idle"
  /\ \E t \in EntityTypes, i \in EntityIds :
       \E entity \in {Obj([id |-> i, type |-> t]),
                       Obj([id |-> i, type |-> t,
                            fields |-> Obj([name |-> S1("Dark Mode"),
                                            type |-> S1("other"), id |-> S1("f1")])])} :
         /\ Invoked("formatEntity", Obj([inputData |-> entity]))
         /\ ReturnAtOnce(formatEntity(entity))

UrlSpec == Init /\ [][BuildUrl \/ FormatEntity]_vars

\* the inputs of createHealthUpdate, each optional one absent, empty or given
PatchInputs ==
  {Defined([entityId |-> S1("e1"), status |-> st, mode |-> m, comment |-> c,
            createdById |-> by]) :
     st \in {S1("onTrack"), S1("atRisk")},
     m \in {Undefined, EmptyStr, S1("manual"), S1("calculated")},
     c \in {Undefined, EmptyStr, S1("looks good"), HtmlOk,
            Str(<<"a", " ", "<", " ", "b">>), Str(<<" ", "<", "p", ">", "x">>)},
     by \in {Undefined, EmptyStr, S1("m1")}}

\* createHealthUpdate up to its first z.request
BuildPatch ==
  \E b \in Bundles(PatchInputs) :
    /\ Invoked("createHealthUpdate", b)
    /\ IssueFirst(createHealthUpdatePatch(b), b, "awaitPatch")

PatchSpec == Init /\ [][BuildPatch]_vars

\* what GET /v2/entities may list for the trigger: entities with a dated
\* health, with a health without a date or without an id, and without health
MaxUpdates == 3

PolledEntities ==
  { Obj([id |-> S1("e1"), type |-> S1("feature"),
         fields |-> Obj([health |-> Obj([id |-> S1("h1"), status |-> S1("atRisk"),
                                         lastUpdatedAt |-> S1(Timestamps[1])])])]),
    Obj([id |-> S1("e2"), type |-> S1("feature"),
         fields |-> Obj([health |-> Obj([id |-> S1("h2"), status |-> S1("onTrack"),
                                         lastUpdatedAt |-> S1(Timestamps[3])])])]),
    Obj([id |-> S1("e3"), type |-> S1("initiative"),
         fields |-> Obj([health |-> Obj([id |-> S1("h3"), status |-> S1("offTrack")])])]),
    Obj([id |-> S1("e4"), type |-> S1("feature"),
         fields |-> Obj([health |-> Obj([status |-> S1("onTrack"),
                                         lastUpdatedAt |-> S1(Timestamps[2])])])]),
    Obj([id |-> S1("e5"), type |-> S1("objective"), fields |-> Obj([name |-> S1("Growth")])]) }

PollReplies ==
  Responses({401, 500}, {EmptyObj})
  \cup Responses({200},
                 {EmptyObj}
                 \cup {Obj([data |-> Arr(l)]) : l \in SeqsUpTo(PolledEntities, MaxUpdates)})

\* one poll of the trigger answered
Polled ==
  /\ handler = "healthUpdates" /\ pc = "await"
  /\ \E r \in PollReplies :
       /\ Answered(r)
       /\ \E o \in healthUpdatesSettled(handleErrors(r)) : Ended(o)

TriggerSpec == Init /\ [][HealthUpdatesStart \/ Polled]_vars

\* ---- the upstream API as a store: an entity has at most one health, which a
\* PATCH of fields.health replaces wholesale, previousStatus being all that
\* is kept of the one before
Landed(health, old) ==
  LET keys == DOMAIN health.obj \cup {"id", "lastUpdatedAt"}
              \cup (IF Truthy(OptGet(old, "status")) THEN {"previousStatus"} ELSE {})
  IN Obj([k \in keys |->
            IF k = "id" THEN S1("h9")
            ELSE IF k = "lastUpdatedAt" THEN S1(Timestamps[3])
            ELSE IF k = "previousStatus" THEN Get(old, "status")
            ELSE health.obj[k]])

\* the entity as GET /v2/entities/{id} returns it
StoredEntity(entityId) ==
  Obj([id |-> entityId, type |-> S1("feature"),
       fields |-> Obj([name |-> S1("Dark Mode"), health |-> store.health])])

\* what other clients may write as the health of the entity
OtherHealths ==
  { Null,
    Obj([id |-> S1("h1"), status |-> S1("offTrack"), mode |-> S1("calculated"),
         lastUpdatedAt |-> S1(Timestamps[1])]),
    Obj([id |-> S1("h2"), status |-> S1("onTrack"), mode |-> S1("manual"),
         comment |-> HtmlOk, lastUpdatedAt |-> S1(Timestamps[2])]) }

\* another client writes the health of the entity
OtherWrite ==
  /\ \E h \in OtherHealths : store' = [health |-> h, sincePatch |-> TRUE]
  /\ store' # store
  /\ UNCHANGED <<handler, hostBundle, pc, sent, inflight, responses, delivered, outcome>>

\* upstream answers the PATCH: it stores the health and answers 200, or
\* answers with an error and stores nothing
StorePatched ==
  /\ handler = "createHealthUpdate" /\ pc = "awaitPatch"
  /\ inflight # <<>>
  /\ \E r \in Responses({401, 404, 500}, {EmptyObj})
              \cup Responses({200}, {EmptyObj, Obj([data |-> Obj([id |-> S1("e1")])])}) :
       /\ responses' = Append(responses, r)
       /\ delivered' = Append(delivered, handleErrors(r))
       /\ createHealthUpdateAfterPatch(handleErrors(r))
       /\ store' = IF r.status = 200
                   THEN [health |-> Landed(Get(Get(Get(inflight[1].body, "data"), "fields"),
                                               "health"),
                                           store.health),
                         sincePatch |-> FALSE]
                   ELSE store
  /\ UNCHANGED <<handler, hostBundle>>

\* upstream answers the GET with the entity as it is stored, or an error
StoreFetched ==
  /\ handler = "createHealthUpdate" /\ pc = "awaitGet"
  /\ \E r \in Responses({401, 500}, {EmptyObj})
              \cup Responses({200}, Wrapped({StoredEntity(Input(hostBundle, "entityId"))})) :
       /\ Answered(r)
       /\ Ended(createHealthUpdateSettled(delivered[1], handleErrors(r)))

StoreSpec ==
  Init /\ [][CreateHealthUpdateStart \/ StorePatched \/ StoreFetched \/ OtherWrite]_vars

(***************************************************************************)
(* Properties                                                              *)
(***************************************************************************)
Lookups == {"getEntity", "getEntityRelationshipsA", "getEntityRelationshipsB"}

NonLookups == {"listEntities", "healthUpdates", "createHealthUpdate", "createNoteRelationship"}

ErrorCodes ==
  {"AuthenticationError", "ForbiddenError", "NotFoundError", "RateLimitError", "ApiError"}

\* t occurs in s as a run of consecutive tokens
Contains(s, t) == \E i \in 1..(Len(s) - Len(t) + 1) : SubSeq(s, i, i + Len(t) - 1) = t

\* C1: a single-entity lookup (getEntity, either revision of
\* getEntityRelationships) whose GET is answered 404 ends by returning the
\* empty array; no error reaches the host.
C1_LookupNotFoundIsEmpty ==
  (pc = "done" /\ handler \in Lookups /\ Len(responses) = 1 /\ responses[1].status = 404)
    => outcome = [kind |-> "return", value |-> Arr(<<>>)]

C1_Witness ==
  /\ pc = "done"
  /\ handler = "getEntity"
  /\ Len(sent) = 1
  /\ Len(responses) = 1
  /\ responses[1].status = 404
  /\ delivered[1].kind = "reject"
  /\ outcome.kind = "return"

\* C2: every response with status >= 400, other than a 404 answered to a
\* single-entity lookup, leaves the handler as a typed error carrying that
\* status, and the handler returns no result: the lookups rethrow, the other
\* handlers never catch.
C2_ErrorsSurface ==
  (pc = "done" /\ handler \in Lookups \cup NonLookups)
    => \A i \in 1..Len(responses) :
         (/\ responses[i].status >= 400
          /\ ~(handler \in Lookups /\ responses[i].status = 404))
           => /\ outcome.kind = "throw"
              /\ outcome.error.code \in ErrorCodes
              /\ outcome.error.status = responses[i].status

C2_Witness ==
  /\ pc = "done"
  /\ handler = "getEntityRelationshipsA"
  /\ Len(responses) = 1
  /\ responses[1].status = 429
  /\ outcome.kind = "throw"
  /\ outcome.error.code = "RateLimitError"

\* C3: for every response with status >= 400 the translator raises one error
\* whose category follows from the status alone (401 AuthenticationError,
\* 403 ForbiddenError, 404 NotFoundError, 429 RateLimitError, anything else
\* ApiError), and the error carries the status unchanged.
C3_CategoryByStatus ==
  /\ Len(delivered) = Len(responses)
  /\ \A i \in 1..Len(responses) :
       responses[i].status >= 400
         => /\ delivered[i].kind = "reject"
            /\ delivered[i].error.status = responses[i].status
            /\ delivered[i].error.code =
                 (CASE responses[i].status = 401 -> "AuthenticationError"
                    [] responses[i].status = 403 -> "ForbiddenError"
                    [] responses[i].status = 404 -> "NotFoundError"
                    [] responses[i].status = 429 -> "RateLimitError"
                    [] OTHER -> "ApiError")

C3_Witness ==
  \E i \in 1..Len(responses) :
    /\ responses[i].status = 400
    /\ responses[i].data = Obj([message |-> S1("m")])
    /\ delivered[i].kind = "reject"
    /\ delivered[i].error.code = "ApiError"
    /\ delivered[i].error.status = 400

\* C6: for every response with status < 400 the translator raises nothing
\* and hands on the very response it was given, status and data unchanged.
C6_SuccessPassesThrough ==
  \A i \in 1..Len(responses) :
    responses[i].status < 400
      => /\ i <= Len(delivered)
         /\ delivered[i] = [kind |-> "resolve", response |-> responses[i]]

C6_Witness ==
  \E i \in 1..Len(responses) :
    /\ responses[i].status = 399
    /\ delivered[i].kind = "resolve"
    /\ delivered[i].response.status = 399
    /\ delivered[i].response.data = responses[i].data

GenericStatus(status) == status >= 400 /\ status \notin {401, 403, 404, 429}

\* the text an element of errors[] carries: its message, else its detail
ElementText(e) == IF Truthy(Get(e, "message")) THEN Get(e, "message") ELSE Get(e, "detail")

\* C4: for a generic error whose body has no message and no error field but
\* an errors array, the translated message contains the message/detail text
\* of every element of errors[].
C4_ErrorsArrayJoined ==
  \A i \in 1..Len(responses) :
    LET body == IF Truthy(responses[i].data) THEN responses[i].data ELSE EmptyObj
    IN (/\ GenericStatus(responses[i].status)
        /\ ~Truthy(Get(body, "message"))
        /\ ~Truthy(Get(body, "error"))
        /\ IsArr(Get(body, "errors")))
         => /\ delivered[i].kind = "reject"
            /\ \A k \in 1..Len(Get(body, "errors").arr) :
                 Contains(delivered[i].error.message,
                          ElementText(Get(body, "errors").arr[k]).str)

\* JSON.stringify of a string, or of an object of strings
RECURSIVE JsonStringify(_)
JsonStringify(v) ==
  IF IsStr(v) THEN <<"\"">> \o v.str \o <<"\"">>
  ELSE IF IsObj(v) /\ DOMAIN v.obj = {} THEN <<"{", "}">>
  ELSE LET k == CHOOSE k \in DOMAIN v.obj : TRUE
           rest == Obj([x \in DOMAIN v.obj \ {k} |-> v.obj[x]])
       IN <<"{", "\"", k, "\"", ":">> \o JsonStringify(v.obj[k])
          \o (IF DOMAIN rest.obj = {} THEN <<"}">>
              ELSE <<",">> \o Tail(JsonStringify(rest)))

\* C5: the message of a generic error is taken, in this order, from
\* body.message, body.error (a string, or its .message), body.errors[],
\* body.detail, body.title, and is the serialization of the whole body when
\* the body has none of these: it always carries content of the body (an
\* absent or empty body has no content to carry).
C5_MessageByPriority ==
  \A i \in 1..Len(responses) :
    LET body == IF Truthy(responses[i].data) THEN responses[i].data ELSE EmptyObj
        msg == delivered[i].error.message
    IN GenericStatus(responses[i].status)
         => /\ delivered[i].kind = "reject"
            /\ IF Truthy(Get(body, "message")) THEN Contains(msg, Get(body, "message").str)
               ELSE IF IsStr(Get(body, "error")) /\ Truthy(Get(body, "error"))
                    THEN Contains(msg, Get(body, "error").str)
               ELSE IF Truthy(Get(Get(body, "error"), "message"))
                    THEN Contains(msg, Get(Get(body, "error"), "message").str)
               ELSE IF IsArr(Get(body, "errors"))
                    THEN \A k \in 1..Len(Get(body, "errors").arr) :
                           Contains(msg, ElementText(Get(body, "errors").arr[k]).str)
               ELSE IF Truthy(Get(body, "detail")) THEN Contains(msg, Get(body, "detail").str)
               ELSE IF Truthy(Get(body, "title")) THEN Contains(msg, Get(body, "title").str)
               ELSE body = EmptyObj \/ Contains(msg, JsonStringify(body))

\* C7: createHealthUpdate issues its PATCH first and its GET of the same
\* entity only once the PATCH has been answered with success; the two are
\* never in flight together; a failed PATCH is not sent again, no GET
\* follows it and its error leaves the handler; the record returned is the
\* formatted entity of the GET response.
C7_PatchThenGet ==
  handler = "createHealthUpdate"
    => /\ Len(inflight) <= 1
       /\ Len(sent) <= 2
       /\ Len(sent) >= 1
            => /\ sent[1].method = "PATCH"
               /\ sent[1].url = <<"https://api.productboard.com/v2/", "entities/", "e1">>
       /\ Len(sent) = 2
            => /\ sent[2].method = "GET"
               /\ sent[2].url = sent[1].url
               /\ Len(responses) >= 1
               /\ responses[1].status < 400
       /\ (Len(responses) >= 1 /\ responses[1].status >= 400)
            => /\ Len(sent) = 1
               /\ inflight = <<>>
               /\ pc = "done"
               /\ outcome.kind = "throw"
               /\ outcome.error.status = responses[1].status
       /\ (pc = "done" /\ outcome.kind = "return")
            => /\ Len(responses) = 2
               /\ responses[2].status < 400
               /\ outcome.value = formatEntity(IF Truthy(Get(responses[2].data, "data"))
                                               THEN Get(responses[2].data, "data")
                                               ELSE responses[2].data)

C7_Witness ==
  /\ handler = "createHealthUpdate"
  /\ pc = "done"
  /\ Len(sent) = 2
  /\ responses[1].data = Obj([data |-> Obj([id |-> S1("e9"), type |-> S1("release")])])
  /\ Get(Get(responses[2].data, "data"), "id") = S1("e1")
  /\ outcome.kind = "return"
  /\ Get(outcome.value, "id") = S1("e1")

\* C8 as stated: every invocation of listEntities, getEntity,
\* getEntityRelationships, createNoteRelationship and healthUpdates issues
\* exactly one request, a successful createHealthUpdate exactly two, and no
\* request is issued twice.
C8_ExactlyOneRequest ==
  pc = "done"
    => /\ handler \in Lookups \cup {"listEntities", "createNoteRelationship", "healthUpdates"}
            => Len(sent) = 1
       /\ (handler = "createHealthUpdate" /\ outcome.kind = "return") => Len(sent) = 2
       /\ \A i, j \in 1..Len(sent) : sent[i] = sent[j] => i = j

\* C8, amended: listEntities, createNoteRelationship and healthUpdates issue
\* exactly one request; getEntity and getEntityRelationships issue exactly
\* one when entityId is given and none when it is empty or missing; a
\* successful createHealthUpdate issues exactly two and a failed one no more;
\* no request is issued twice.
C8_OneRequestUnlessNoId ==
  /\ Len(sent) <= 2
  /\ \A i, j \in 1..Len(sent) : sent[i] = sent[j] => i = j
  /\ pc = "done"
       => /\ handler \in {"listEntities", "createNoteRelationship", "healthUpdates"}
               => Len(sent) = 1
          /\ handler \in Lookups
               => Len(sent) = (IF Input(hostBundle, "entityId") \in {Undefined, EmptyStr}
                               THEN 0 ELSE 1)
          /\ (handler = "createHealthUpdate" /\ outcome.kind = "return") => Len(sent) = 2

C8_Witness ==
  /\ pc = "done"
  /\ handler = "getEntityRelationshipsB"
  /\ Input(hostBundle, "entityId") = EmptyStr
  /\ sent = <<>>
  /\ responses = <<>>
  /\ outcome.kind = "return"

\* the value at a path of property names, undefined when a step is missing
RECURSIVE At(_, _)
At(v, path) ==
  IF path = <<>> THEN v
  ELSE IF IsObj(v) /\ Head(path) \in DOMAIN v.obj THEN At(v.obj[Head(path)], Tail(path))
  ELSE Undefined

\* the pairs <<raw entity, record>> of the formatEntity calls behind the
\* result of the invocation that has just ended
Formatted ==
  IF pc = "done" /\ outcome.kind = "return"
  THEN IF handler = "getEntity" /\ Len(outcome.value.arr) = 1
       THEN {<<Unwrap(responses[1]), outcome.value.arr[1]>>}
       ELSE IF handler = "createHealthUpdate"
       THEN {<<Unwrap(responses[2]), outcome.value>>}
       ELSE IF handler = "listEntities"
       THEN {<<At(responses[1].data, <<"data">>).arr[i], outcome.value.arr[i]>> :
               i \in 1..Len(outcome.value.arr)}
       ELSE {}
  ELSE {}

DocumentedKeys ==
  {"id", "type", "name", "description", "descriptionPlainText", "url", "status",
   "statusId", "archived", "ownerEmail", "ownerId", "startDate", "endDate",
   "createdAt", "updatedAt", "health"}

\* the record's string leaves read under fields, and where each is read
FieldLeaves ==
  [name |-> <<"fields", "name">>,
   description |-> <<"fields", "description">>,
   status |-> <<"fields", "status", "name">>,
   statusId |-> <<"fields", "status", "id">>,
   ownerEmail |-> <<"fields", "owner", "email">>,
   ownerId |-> <<"fields", "owner", "id">>,
   startDate |-> <<"fields", "timeframe", "startDate">>,
   endDate |-> <<"fields", "timeframe", "endDate">>]

HealthKeys ==
  {"id", "status", "previousStatus", "mode", "comment", "commentPlainText",
   "lastUpdatedAt", "updatedByEmail", "updatedById"}

\* the plain text of the rich texts of the model
PlainText(comment) ==
  IF comment = HtmlOk THEN Str(<<"ok">>)
  ELSE IF comment = HtmlRich THEN Str(<<"a", " ", "b", " ", "c", "&", "d">>)
  ELSE Str(<<>>)

\* C10 as stated: health is null exactly when the entity has no
\* fields.health; otherwise status, mode, id and lastUpdatedAt mirror the raw
\* health, commentPlainText is the sanitized comment, and every field of the
\* health object is defaulted when the raw health lacks it.
C10_HealthEveryFieldDefaulted ==
  \A p \in Formatted :
    LET raw == At(p[1], <<"fields", "health">>)
        h == p[2].obj.health
    IN /\ (h = Null) = (raw \in {Undefined, Null})
       /\ h # Null
            => /\ DOMAIN h.obj = HealthKeys
               /\ \A k \in {"status", "mode", "id", "lastUpdatedAt"} :
                    At(raw, <<k>>) # Undefined => h.obj[k] = At(raw, <<k>>)
               /\ h.obj.commentPlainText = PlainText(At(raw, <<"comment">>))
               /\ \A k \in HealthKeys : h.obj[k] # Undefined

\* C10, amended: health is null exactly when the entity has no fields.health;
\* otherwise status, mode, id and lastUpdatedAt are the raw values, undefined
\* (no default) when the raw health lacks them; commentPlainText is the
\* sanitized comment ('<p>ok</p>' gives 'ok', no comment gives ''); and
\* previousStatus, comment, updatedByEmail and updatedById are each the raw
\* value or '' independently of the others.
C10_HealthProjection ==
  \A p \in Formatted :
    LET raw == At(p[1], <<"fields", "health">>)
        h == p[2].obj.health
        orEmpty(v) == IF v = Undefined THEN Str(<<>>) ELSE v
    IN /\ (h = Null) = (raw \in {Undefined, Null})
       /\ h # Null
            => /\ DOMAIN h.obj = HealthKeys
               /\ \A k \in {"status", "mode", "id", "lastUpdatedAt"} :
                    h.obj[k] = At(raw, <<k>>)
               /\ h.obj.commentPlainText = PlainText(At(raw, <<"comment">>))
               /\ h.obj.previousStatus = orEmpty(At(raw, <<"previousStatus">>))
               /\ h.obj.comment = orEmpty(At(raw, <<"comment">>))
               /\ h.obj.updatedByEmail = orEmpty(At(raw, <<"createdBy", "email">>))
               /\ h.obj.updatedById = orEmpty(At(raw, <<"createdBy", "id">>))

C10_Witness ==
  /\ handler = "listEntities"
  /\ \E p \in Formatted :
       /\ At(p[1], <<"fields", "health">>) =
            Obj([status |-> S1("onTrack"), mode |-> S1("manual"), comment |-> HtmlOk])
       /\ p[2].obj.health.obj.commentPlainText = Str(<<"ok">>)
       /\ p[2].obj.health.obj.status = S1("onTrack")
       /\ p[2].obj.health.obj.lastUpdatedAt = Undefined
       /\ p[2].obj.health.obj.previousStatus = Str(<<>>)

(***************************************************************************)
(* The filters of listEntities                                             *)
(***************************************************************************)
\* the body.data of the search request of the current listEntities invocation
SearchSent == At(sent[1].body, <<"data">>)

Searching == handler = "listEntities" /\ Len(sent) = 1

\* the multi-valued inputs: the key of the request and of its elements
MultiValued ==
  [statusNames |-> [key |-> "statuses", of |-> "name"],
   ownerEmails |-> [key |-> "owners", of |-> "email"]]

\* the positions of the commas of s, and of its n-th comma (0 before the
\* string, one behind it after the last)
Commas(s) == {i \in 1..Len(s) : s[i] = ","}

NthComma(s, n) ==
  IF n = 0 THEN 0
  ELSE IF n > Cardinality(Commas(s)) THEN Len(s) + 1
  ELSE CHOOSE i \in Commas(s) : Cardinality({j \in Commas(s) : j <= i}) = n

\* the n-th comma-separated element of s
Element(s, n) == SubSeq(s, NthComma(s, n - 1) + 1, NthComma(s, n) - 1)

\* e without its surrounding whitespace
Trimmed(e) ==
  LET ink == {i \in 1..Len(e) : ~IsWs(e[i])}
  IN IF ink = {} THEN <<>>
     ELSE SubSeq(e, CHOOSE i \in ink : \A j \in ink : i <= j,
                    CHOOSE i \in ink : \A j \in ink : j <= i)

\* the list the request carries for multi-valued input f, as strings
Listed(f) ==
  LET l == At(SearchSent, <<MultiValued[f].key>>).arr
  IN [i \in 1..Len(l) |-> At(l[i], <<MultiValued[f].of>>)]

\* C11: for a comma-separated statusNames or ownerEmails string, the list
\* sent upstream has one entry per comma-separated element, in the order of
\* the input, each the element without its surrounding whitespace.
C11_ElementsTrimmedInOrder ==
  Searching =>
    \A f \in DOMAIN MultiValued :
      LET v == Input(hostBundle, f)
      IN IsStr(v) /\ v # EmptyStr =>
           /\ IsArr(At(SearchSent, <<MultiValued[f].key>>))
           /\ Len(Listed(f)) = Cardinality(Commas(v.str)) + 1
           /\ \A i \in 1..Len(Listed(f)) :
                Listed(f)[i] = Str(Trimmed(Element(v.str, i)))

C11_Witness ==
  /\ Searching
  /\ Input(hostBundle, "statusNames") = Str(<<"In Progress", ",", " ", "Done">>)
  /\ Input(hostBundle, "ownerEmails") = Undefined
  /\ Listed("statusNames") = <<S1("In Progress"), S1("Done")>>

\* C12 as stated: whether the input is an array or a comma-separated
\* string, every element sent is trimmed, and the field is left out of the
\* request when the list is empty; the request never carries an empty list
\* or an empty-string element.
C12_NoEmptyListNoEmptyElement ==
  Searching =>
    \A f \in DOMAIN MultiValued :
      At(SearchSent, <<MultiValued[f].key>>) # Undefined =>
        /\ Listed(f) # <<>>
        /\ \A i \in 1..Len(Listed(f)) :
             /\ Listed(f)[i] # EmptyStr
             /\ Listed(f)[i] = Str(Trimmed(Listed(f)[i].str))

\* C13: archived 'true' sends the boolean true, 'false' the boolean false,
\* 'all' and no input send no archived key at all; what is sent for archived
\* is never a string.
C13_ArchivedThreeOutcomes ==
  Searching =>
    LET archived == Input(hostBundle, "archived")
    IN /\ archived = S1("true") => At(SearchSent, <<"archived">>) = Bool(TRUE)
       /\ archived = S1("false") => At(SearchSent, <<"archived">>) = Bool(FALSE)
       /\ archived \in {S1("all"), Undefined} => "archived" \notin DOMAIN SearchSent.obj
       /\ "archived" \in DOMAIN SearchSent.obj => IsBool(SearchSent.obj.archived)

C13_Witness ==
  /\ Searching
  /\ Input(hostBundle, "archived") = S1("all")
  /\ Truthy(Input(hostBundle, "startDate"))
  /\ DOMAIN SearchSent.obj = {"fields", "timeframe"}

\* the bounds of the date range of the request under the given names
DateRangeSent(lower, upper) ==
  /\ Truthy(Input(hostBundle, "startDate"))
       = (At(SearchSent, <<"timeframe", lower>>) # Undefined)
  /\ Truthy(Input(hostBundle, "startDate"))
       => At(SearchSent, <<"timeframe", lower>>) = Input(hostBundle, "startDate")
  /\ Truthy(Input(hostBundle, "endDate"))
       = (At(SearchSent, <<"timeframe", upper>>) # Undefined)
  /\ Truthy(Input(hostBundle, "endDate"))
       => At(SearchSent, <<"timeframe", upper>>) = Input(hostBundle, "endDate")
  /\ "timeframe" \in DOMAIN SearchSent.obj
       => /\ IsObj(SearchSent.obj.timeframe)
          /\ DOMAIN SearchSent.obj.timeframe.obj \subseteq {lower, upper}
  /\ ("timeframe" \in DOMAIN SearchSent.obj)
       = (Truthy(Input(hostBundle, "startDate")) \/ Truthy(Input(hostBundle, "endDate")))

\* C14 as stated: the lower bound is sent as gte exactly when startDate is
\* given, the upper bound as lte exactly when endDate is given, neither
\* brings the other, and without both there is no date-range key.
C14_BoundsSentAsGteLte == Searching => DateRangeSent("gte", "lte")

\* C14, amended: the bounds are sent under the names of their inputs, as
\* timeframe.startDate and timeframe.endDate; each is in the request
\* exactly when its input is given (non-empty), with the input's value,
\* neither brings the other, and without both there is no timeframe key.
C14_BoundsIndependent == Searching => DateRangeSent("startDate", "endDate")

C14_Witness ==
  /\ Searching
  /\ Input(hostBundle, "startDate") = Undefined
  /\ Input(hostBundle, "endDate") = S1("2025-03-31")
  /\ At(SearchSent, <<"timeframe">>) = Obj([endDate |-> S1("2025-03-31")])

\* the optional filter inputs of listEntities next to entityType
FilterKeys ==
  {"ownerEmails", "statusNames", "healthStatus", "archived", "startDate", "endDate",
   "parentId", "componentId", "productId", "initiativeId", "objectiveId", "releaseId"}

\* C15: with no entity type and no filter value the search is a plain
\* listing, GET /v2/entities with query parameters; with an entity type or
\* any filter value it is an advanced search, POST /v2/entities/search with
\* a body that carries the type and the filters inside a filter object.
C15_ModeSelectedByInputs ==
  Searching =>
    IF \A k \in FilterKeys \cup {"entityType"} : ~Truthy(Input(hostBundle, k))
    THEN /\ sent[1].method = "GET"
         /\ sent[1].url = ApiBase \o <<"entities">>
         /\ sent[1].body = Undefined
    ELSE /\ sent[1].method = "POST"
         /\ sent[1].url = ApiBase \o <<"entities/search">>
         /\ \/ IsObj(At(sent[1].body, <<"data", "filter">>))
            \/ IsObj(At(sent[1].body, <<"filter">>))

(***************************************************************************)
(* stripHtml                                                               *)
(***************************************************************************)
Sanitized == handler = "stripHtml" /\ pc = "done"

\* the tokens of s outside its tags (s written from whole tags, entities and
\* text without < and >)
Shown(s) ==
  LET inTag(i) == \E j \in 1..i : s[j] = "<" /\ \A k \in j..(i - 1) : s[k] # ">"
      RECURSIVE from(_)
      from(i) == IF i > Len(s) THEN <<>>
                 ELSE IF inTag(i) THEN from(i + 1)
                 ELSE <<s[i]>> \o from(i + 1)
  IN from(1)

\* s holds the entity of one of the names at some position
HasEntity(s, names) ==
  \E i \in 1..(Len(s) - 2) : s[i] = "&" /\ s[i + 1] \in names /\ s[i + 2] = ";"

\* an &amp; of s comes right before text that spells the rest of an entity
AmpBeforeEntityText(s) ==
  \E i \in 1..(Len(s) - 4) :
    /\ SubSeq(s, i, i + 2) = <<"&", "amp", ";">>
    /\ s[i + 3] \in EntityNames
    /\ s[i + 4] = ";"

NoMarkup(s) ==
  /\ \A i \in 1..Len(s) : s[i] \notin {"<", ">"}
  /\ ~HasEntity(s, EntityNames)

\* C16 as stated: for every input written from tags, the whitelisted entities
\* and plain text, the output has no '<', no '>' and no entity sequence left.
C16_NoMarkupLeft ==
  Sanitized /\ IsStr(Input(hostBundle, "html")) => NoMarkup(outcome.value.str)

\* C16, amended: the output has no '<', no '>' and no entity sequence left
\* when the input, tags aside, has no &lt; and no &gt; and no &amp; right
\* before text that completes an entity; every &lt; outside a tag comes out
\* as a literal '<' and every &gt; as a literal '>'; '&amp;lt;' is decoded
\* twice, to '<', and '&amp;amp;' once, to '&amp;'.
C16_NoMarkupLeftUnlessDecoded ==
  Sanitized /\ IsStr(Input(hostBundle, "html")) =>
    LET shown == Shown(Input(hostBundle, "html").str)
        out == outcome.value.str
    IN /\ ~HasEntity(shown, {"lt", "gt"}) /\ ~AmpBeforeEntityText(shown) => NoMarkup(out)
       /\ HasEntity(shown, {"lt"}) => \E i \in 1..Len(out) : out[i] = "<"
       /\ HasEntity(shown, {"gt"}) => \E i \in 1..Len(out) : out[i] = ">"
       /\ shown = <<"&", "amp", ";", "lt", ";">> => out = <<"<">>
       /\ shown = <<"&", "amp", ";", "amp", ";">> => out = <<"&", "amp", ";">>

C16_Witness ==
  /\ Sanitized
  /\ Input(hostBundle, "html")
       = Str(<<"<", "a", " ", "title=", "&", "lt", ";", "&", "nbsp", ";", ">",
               "&", "quot", ";", "<", "/", "p", ">">>)
  /\ outcome.value = Str(<<"\"">>)

\* C17: '' for null, undefined and ''; for any other string a value without
\* whitespace at either end and without two whitespace characters in a row,
\* whether the whitespace was in the input, was left by a removed tag or came
\* from a decoded &nbsp;.
C17_WhitespaceNormalised ==
  Sanitized =>
    /\ IsStr(outcome.value)
    /\ Input(hostBundle, "html") \in {Null, Undefined, EmptyStr} => outcome.value = EmptyStr
    /\ LET out == outcome.value.str
       IN /\ out # <<>> => ~IsWs(out[1]) /\ ~IsWs(out[Len(out)])
          /\ \A i \in 1..(Len(out) - 1) : ~(IsWs(out[i]) /\ IsWs(out[i + 1]))

C17_Witness ==
  /\ Sanitized
  /\ Input(hostBundle, "html") = Str(<<"a", " ", "&", "nbsp", ";", "\t", "a">>)
  /\ outcome.value = Str(<<"a", " ", "a">>)

(***************************************************************************)
(* getEntityUrl                                                            *)
(***************************************************************************)
WorkspacePrefix == <<"https://zapier.productboard.com/feature-board/165206/detail/">>

\* u is the prefix, then the type and the id as they are, with a slash between
EmbedsLiterally(u, type, id) ==
  /\ IsStr(u)
  /\ Len(u.str) = Len(WorkspacePrefix) + Len(type.str) + 1 + Len(id.str)
  /\ SubSeq(u.str, 1, Len(WorkspacePrefix)) = WorkspacePrefix
  /\ SubSeq(u.str, Len(WorkspacePrefix) + 1, Len(WorkspacePrefix) + Len(type.str)) = type.str
  /\ u.str[Len(WorkspacePrefix) + Len(type.str) + 1] = "/"
  /\ SubSeq(u.str, Len(u.str) - Len(id.str) + 1, Len(u.str)) = id.str

\* C18: the url of a type and an id is the fixed workspace prefix followed by
\* '<type>/<id>', both as they are given, whatever characters they hold; and
\* the url of a formatted entity is that of the entity's own type and id.
C18_UrlEmbedsTypeAndId ==
  /\ handler = "getEntityUrl" /\ pc = "done"
       => EmbedsLiterally(outcome.value, Input(hostBundle, "entityType"),
                          Input(hostBundle, "entityId"))
  /\ handler = "formatEntity" /\ pc = "done"
       => EmbedsLiterally(outcome.value.obj.url, Input(hostBundle, "type"),
                          Input(hostBundle, "id"))

C18_Witness ==
  /\ handler = "formatEntity" /\ pc = "done"
  /\ Input(hostBundle, "type") = S1("keyResult")
  /\ Input(hostBundle, "id") = Str(<<"..", "/", "x">>)
  /\ Input(hostBundle, "fields") # Undefined
  /\ outcome.value.obj.url = Str(WorkspacePrefix \o <<"keyResult", "/", "..", "/", "x">>)

(***************************************************************************)
(* getEntityRelationships                                                  *)
(***************************************************************************)
\* the pairs <<upstream relationship, record>> of the result of the
\* getEntityRelationships invocation that has just ended
Related ==
  IF /\ handler \in {"getEntityRelationshipsA", "getEntityRelationshipsB"}
     /\ pc = "done" /\ outcome.kind = "return" /\ Len(responses) = 1
  THEN LET raw == IF IsArr(Unwrap(responses[1])) THEN Unwrap(responses[1]).arr
                  ELSE <<Unwrap(responses[1])>>
       IN {<<raw[i], outcome.value.arr[i]>> : i \in 1..Len(outcome.value.arr)}
  ELSE {}

\* C19: every record has an id, the relationship's own when upstream gives
\* one, and otherwise the queried entity id, '_' and the id of the target
\* the record reports as relatedEntityId.
C19_OwnIdOrCompositeOfTarget ==
  \A p \in Related :
    /\ Truthy(At(p[2], <<"id">>))
    /\ Truthy(At(p[1], <<"id">>)) => At(p[2], <<"id">>) = At(p[1], <<"id">>)
    /\ ~Truthy(At(p[1], <<"id">>)) /\ Truthy(At(p[2], <<"relatedEntityId">>))
         => At(p[2], <<"id">>)
              = Str(Input(hostBundle, "entityId").str \o <<"_">>
                    \o At(p[2], <<"relatedEntityId">>).str)

(***************************************************************************)
(* The request-mutation hook                                               *)
(***************************************************************************)
\* the i-th request of the current invocation as its handler builds it
Built(i) ==
  IF handler = "getEntity" THEN getEntityRequest(hostBundle)
  ELSE IF handler \in {"getEntityRelationshipsA", "getEntityRelationshipsB"}
       THEN getEntityRelationshipsRequest(hostBundle)
  ELSE IF handler = "listEntities" THEN listEntitiesRequest(hostBundle)
  ELSE IF handler = "healthUpdates" THEN healthUpdatesRequest(hostBundle)
  ELSE IF handler = "createNoteRelationship" THEN createNoteRelationshipRequest(hostBundle)
  ELSE IF handler = "testAuth" THEN testAuthRequest
  ELSE IF i = 1 THEN createHealthUpdatePatch(hostBundle)
  ELSE createHealthUpdateGet(hostBundle)

HealthSent == At(sent[1].body, <<"data", "fields", "health">>)

Patching == handler = "createHealthUpdate" /\ Len(sent) >= 1

\* C21: the PATCH body is {data: {fields: {health: H}}}; H.status is the
\* input status, H.mode the input mode or 'manual', H.comment is there
\* exactly for a non-empty comment (as it is when it starts with '<', inside
\* <p>...</p> otherwise), H.createdBy = {id} exactly for a given createdById,
\* and H has no other key.
C21_PatchBody ==
  Patching =>
    LET in(k) == Input(hostBundle, k)
        given(k) == in(k) \notin {Undefined, EmptyStr}
        H == HealthSent
    IN /\ sent[1].method = "PATCH"
       /\ sent[1].body = Obj([data |-> Obj([fields |-> Obj([health |-> H])])])
       /\ IsObj(H)
       /\ DOMAIN H.obj = {"status", "mode"}
                         \cup (IF given("comment") THEN {"comment"} ELSE {})
                         \cup (IF given("createdById") THEN {"createdBy"} ELSE {})
       /\ H.obj.status = in("status")
       /\ H.obj.mode = (IF given("mode") THEN in("mode") ELSE Str(<<"manual">>))
       /\ given("comment") =>
            IF Head(in("comment").str) = "<"
            THEN H.obj.comment = in("comment")
            ELSE /\ Len(H.obj.comment.str) = Len(in("comment").str) + 7
                 /\ SubSeq(H.obj.comment.str, 1, 3) = <<"<", "p", ">">>
                 /\ SubSeq(H.obj.comment.str, 4, Len(in("comment").str) + 3)
                      = in("comment").str
                 /\ SubSeq(H.obj.comment.str, Len(in("comment").str) + 4,
                           Len(in("comment").str) + 7) = <<"<", "/", "p", ">">>
       /\ given("createdById") => H.obj.createdBy = Obj([id |-> in("createdById")])

C21_Witness ==
  /\ Patching
  /\ Input(hostBundle, "comment") = S1("looks good")
  /\ Input(hostBundle, "mode") = Undefined
  /\ HealthSent = Obj([status |-> S1("atRisk"), mode |-> S1("manual"),
                       comment |-> Str(<<"<", "p", ">", "looks good", "<", "/", "p", ">">>),
                       createdBy |-> Obj([id |-> S1("m1")])])

\* the records of the poll that has just ended, and what upstream listed
PollDone == handler = "healthUpdates" /\ pc = "done" /\ Len(responses) = 1

Listed_ == IF IsArr(At(responses[1].data, <<"data">>))
           THEN At(responses[1].data, <<"data">>).arr ELSE <<>>

\* the position of a timestamp in time, 0 for what is no date
TimeOf(v) ==
  IF \E i \in 1..Len(Timestamps) : v = S1(Timestamps[i])
  THEN CHOOSE i \in 1..Len(Timestamps) : v = S1(Timestamps[i])
  ELSE 0

Earlier(a, b) == TimeOf(a) # 0 /\ TimeOf(b) # 0 /\ TimeOf(a) < TimeOf(b)

\* C22: the records of the trigger are sorted by health.lastUpdatedAt, newest
\* first: no record comes before one whose health.lastUpdatedAt is later,
\* adjacent records included, whatever the order of the upstream list.
C22_NewestFirst ==
  PollDone /\ outcome.kind = "return" =>
    \A i, j \in 1..Len(outcome.value.arr) :
      i < j => ~Earlier(At(outcome.value.arr[i], <<"health", "lastUpdatedAt">>),
                        At(outcome.value.arr[j], <<"health", "lastUpdatedAt">>))

\* the positions of the upstream list whose entity has a health with an id
WithHealthId == {i \in 1..Len(Listed_) : Truthy(At(Listed_[i], <<"fields", "health", "id">>))}

\* C23: a poll that upstream answers with a list returns one record for
\* each listed entity that has a health with an id and none for any other;
\* each record has a health that is not null, the id of that health as its
\* id and the id of its entity as its entityId; no null health is read.
C23_OneRecordPerHealthUpdate ==
  PollDone /\ delivered[1].kind = "resolve" =>
    /\ outcome.kind = "return"
    /\ Len(outcome.value.arr) = Cardinality(WithHealthId)
    /\ \E of \in [1..Len(outcome.value.arr) -> WithHealthId] :
         /\ \A i, j \in DOMAIN of : i # j => of[i] # of[j]
         /\ \A i \in DOMAIN of :
              LET rec == outcome.value.arr[i]
                  entity == Listed_[of[i]]
              IN /\ IsObj(At(rec, <<"health">>))
                 /\ At(rec, <<"id">>) = At(entity, <<"fields", "health", "id">>)
                 /\ At(rec, <<"id">>) = At(rec, <<"health", "id">>)
                 /\ At(rec, <<"entityId">>) = At(entity, <<"id">>)
                 /\ At(rec, <<"type">>) = At(entity, <<"type">>)

C23_Witness ==
  /\ PollDone /\ outcome.kind = "return"
  /\ Len(Listed_) = 3
  /\ At(Listed_[1], <<"fields", "health">>) = Undefined
  /\ At(Listed_[2], <<"fields", "health", "id">>) = S1("h1")
  /\ At(Listed_[3], <<"fields", "health">>) # Undefined
  /\ At(Listed_[3], <<"fields", "health", "id">>) = Undefined
  /\ Len(outcome.value.arr) = 1
  /\ At(outcome.value.arr[1], <<"id">>) = S1("h1")
  /\ At(outcome.value.arr[1], <<"entityId">>) = S1("e1")

\* C24: when no other write lands between the PATCH and the GET of an
\* invocation, the record a successful createHealthUpdate returns has the
\* requested status as its health.status and the requested mode, or
\* 'manual', as its health.mode.
C24_ReturnsWhatItWrote ==
  [][(/\ handler = "createHealthUpdate"
      /\ pc = "awaitGet" /\ pc' = "done"
      /\ outcome'.kind = "return"
      /\ ~store.sincePatch)
     => /\ At(outcome'.value, <<"health", "status">>) = Input(hostBundle, "status")
        /\ At(outcome'.value, <<"health", "mode">>)
             = (IF Input(hostBundle, "mode") \in {Undefined, EmptyStr}
                THEN Str(<<"manual">>) ELSE Input(hostBundle, "mode"))]_vars

C24_Witness ==
  /\ handler = "createHealthUpdate" /\ pc = "done" /\ outcome.kind = "return"
  /\ ~store.sincePatch
  /\ Input(hostBundle, "status") = S1("atRisk")
  /\ Input(hostBundle, "mode") = Undefined
  /\ At(outcome.value, <<"health", "status">>) = S1("atRisk")
  /\ At(outcome.value, <<"health", "mode">>) = S1("manual")
  /\ At(outcome.value, <<"health", "previousStatus">>) = S1("offTrack")

====
